---- MODULE Spec2Model ----
(***************************************************************************)
(* Matchmaking and signalling state of app.py (Flask + SSE random video    *)
(* chat).  One action per HTTP handler, handlers executed one at a time.   *)
(* Spec explores /register, /find, /next and /leave; SpecRelay explores   *)
(* every handler, /signal, /events and /_test/pull included; SpecStream   *)
(* adds the readers of the queues, one Queue.get at a time; SpecThreads    *)
(* runs two handlers in parallel, one access to the globals at a time.     *)
(***************************************************************************)
EXTENDS Integers, Sequences, FiniteSets, TLC

\* ---------------------------------------------------------------- bounds
MaxPuts == 5       \* Queue.put calls explored in one run of the matchmaking handlers
RelayPuts == 2     \* Queue.put calls explored in one run of all the handlers
MaxRooms == 2      \* number of room ids uuid4 hands out in one run
StreamPuts == 3    \* Queue.put calls explored in one run with readers
ThreadPuts == 1    \* Queue.put calls made before the parallel handlers start

\* -------------------------------------------------------------- universe
ClientSeq == <<"c1", "c2", "c3">>   \* the values uuid4 returns to /register, in order
Clients == {ClientSeq[i] : i \in DOMAIN ClientSeq}
Ghosts == {"g"}                 \* an identifier a caller made up
None == ""                      \* Python None / a missing (falsy) field
NoRid == 0                      \* Python None where a room id is expected
MsgTypes == {"offer"}
Payloads == {"x"}
StreamPayloads == {"x", "y"}    \* two relays that can be told apart
ConnSeq == <<"s1", "s2">>       \* the connections that read a queue, in order of start
Threads == {"t1", "t2"}         \* the server threads that run a handler in parallel
RoomIds == 1..MaxRooms

VARIABLES
    waiting_id,       \* app.py:40
    rooms,            \* app.py:41  room id -> (role -> client id)
    peer_of,          \* app.py:42
    room_of,          \* app.py:43
    message_queues,   \* app.py:44  client id -> sequence of events
    registered,       \* history: the ids /register has returned
    next_rid,         \* history: how many room ids uuid4 has produced
    puts,             \* history: how many Queue.put calls have been made
    log,              \* history: observed client id -> every event put on its queue
    streams,          \* the /events generators and /_test/pull loops, in order of start
    threads,          \* thread -> the handler it runs, its locals and its position
    heap              \* room id -> the dict object a thread holds as `members`

vars == <<waiting_id, rooms, peer_of, room_of, message_queues,
          registered, next_rid, puts, log, streams, threads, heap>>

\* ------------------------------------------------------ dict primitives
Empty == <<>>
Has(d, k) == k \in DOMAIN d
Get(d, k, dflt) == IF k \in DOMAIN d THEN d[k] ELSE dflt
Pop(d, k) == [x \in DOMAIN d \ {k} |-> d[x]]
Put(d, k, v) == [x \in DOMAIN d \cup {k} |-> IF x = k THEN v ELSE d[x]]

\* The five module-level globals as one value, so that a handler can be
\* written as the composition of the functions it calls.
State == [waiting_id |-> waiting_id, rooms |-> rooms, peer_of |-> peer_of,
          room_of |-> room_of, message_queues |-> message_queues, puts |-> puts,
          log |-> log]

\* ------------------------------------------------------------- events
Ev(event, data) == [event |-> event, data |-> data]
MatchedEv(rid, role, peer) == Ev("matched", [room |-> rid, role |-> role, peer |-> peer])
SearchingEv == Ev("status", [msg |-> "Searching for a partner"])
LeftChatEv == Ev("status", [msg |-> "Left the chat."])
PeerLeftEv == Ev("peer-left", Empty)
SignalEv(cid, typ, payload) == Ev("signal", [from |-> cid, type |-> typ, payload |-> payload])

\* how often an event, or a kind of event, is in a queue
Count(q, ev) == Cardinality({i \in DOMAIN q : q[i] = ev})
CountKind(q, kind) == Cardinality({i \in DOMAIN q : q[i].event = kind})

\* ------------------------------------------------------------- helpers
_ensure_queue(S, cid) ==
    IF Has(S.message_queues, cid) THEN S
    ELSE [S EXCEPT !.message_queues = Put(@, cid, <<>>)]

_enqueue(S, cid, ev) ==
    IF Has(S.message_queues, cid)
    THEN [S EXCEPT !.message_queues[cid] = Append(@, ev), !.puts = @ + 1,
                   !.log = IF Has(@, cid) THEN Put(@, cid, Append(@[cid], ev)) ELSE @]
    ELSE S

Members(room) == {room[k] : k \in DOMAIN room}

\* lines 74-77: the members dict after `del members[k]` for every k with
\* members[k] = cid
RemoveMemberKept(members, cid) == members

RemoveMember(members, cid) ==
    [k \in {r \in DOMAIN members : members[r] # cid} |-> members[k]]

\* lines 70-72: other = peer_of.pop(cid, None); if other: peer_of.pop(other, None)
PopPeersOneWay(S, cid) ==
    [S EXCEPT !.peer_of = Pop(@, cid)]

PopPeers(S, cid) ==
    LET other == Get(S.peer_of, cid, None)
        S2 == [S EXCEPT !.peer_of = Pop(@, cid)]
    IN  IF other # None THEN [S2 EXCEPT !.peer_of = Pop(@, other)] ELSE S2

\* lines 80-81
NotifyPeerNever(S, other, notify_peer) == S

NotifyPeer(S, other, notify_peer) ==
    IF notify_peer /\ other # None THEN _enqueue(S, other, PeerLeftEv) ELSE S

_leave_current_room(S, cid, notify_peer) ==
    LET rid == Get(S.room_of, cid, NoRid)
        S1 == [S EXCEPT !.room_of = Pop(@, cid)]
    IN  IF rid = NoRid
        THEN IF S1.waiting_id = cid THEN [S1 EXCEPT !.waiting_id = None] ELSE S1
        ELSE
          LET other == Get(S1.peer_of, cid, None)
              S3 == PopPeers(S1, cid)
              members == RemoveMember(Get(S3.rooms, rid, Empty), cid)
              S4 == [S3 EXCEPT !.rooms = Put(@, rid, members)]
              S5 == NotifyPeer(S4, other, notify_peer)
          IN  IF DOMAIN members = {}
              THEN [S5 EXCEPT !.rooms = Pop(@, rid)]
              ELSE S5

\* ------------------------------------------------------------ responses
Resp(code, status, room) == [code |-> code, status |-> status, room |-> room]
BadRequest == Resp(400, "error", NoRid)
NotFound == Resp(404, "error", NoRid)
Ok == Resp(200, "ok", NoRid)

\* lines 105-107: if cid in room_of: _leave_current_room(cid)
ImplicitLeaveSkipped(S, cid) == S

ImplicitLeaveNotifying(S, cid) ==
    IF Has(S.room_of, cid) THEN _leave_current_room(S, cid, TRUE) ELSE S

ImplicitLeave(S, cid) ==
    IF Has(S.room_of, cid) THEN _leave_current_room(S, cid, FALSE) ELSE S

\* line 114
NewRoomSwapped(other, cid) == [a |-> cid, b |-> other]

NewRoom(other, cid) == [a |-> other, b |-> cid]

\* lines 120-121
EmitMatchedToWaiterOnly(S, other, cid, rid) ==
    _enqueue(S, other, MatchedEv(rid, "caller", cid))

EmitMatched(S, other, cid, rid) ==
    _enqueue(_enqueue(S, other, MatchedEv(rid, "caller", cid)),
             cid, MatchedEv(rid, "callee", other))

\* line 110: if waiting_id and waiting_id != cid
ShouldPairAnyWaiter(S, cid) == S.waiting_id # None

ShouldPair(S, cid) == S.waiting_id # None /\ S.waiting_id # cid

\* find_partner: the globals afterwards (st), the response (res) and
\* whether a room id was drawn from uuid4 (fresh); rid is the id uuid4 returns.
find_partner(S, cid, rid) ==
    IF cid = None THEN [st |-> S, res |-> BadRequest, fresh |-> FALSE]
    ELSE
      LET S1 == ImplicitLeave(S, cid)
      IN  IF ShouldPair(S1, cid)
          THEN
            LET other == S1.waiting_id
                S2 == [S1 EXCEPT !.waiting_id = None]
                S3 == [S2 EXCEPT !.rooms = Put(@, rid, NewRoom(other, cid))]
                S4 == [S3 EXCEPT !.peer_of = Put(@, other, cid)]
                S5 == [S4 EXCEPT !.peer_of = Put(@, cid, other)]
                S6 == [S5 EXCEPT !.room_of = Put(@, other, rid)]
                S7 == [S6 EXCEPT !.room_of = Put(@, cid, rid)]
                S8 == EmitMatched(S7, other, cid, rid)
            IN  [st |-> S8, res |-> Resp(200, "matched", rid), fresh |-> TRUE]
          ELSE
            LET S2 == [S1 EXCEPT !.waiting_id = cid]
                S3 == _enqueue(S2, cid, SearchingEv)
            IN  [st |-> S3, res |-> Resp(200, "waiting", NoRid), fresh |-> FALSE]

\* /next that leaves the room without telling the peer
next_partner_Silent(S, cid, rid) ==
    IF cid = None THEN [st |-> S, res |-> BadRequest, fresh |-> FALSE]
    ELSE find_partner(_leave_current_room(S, cid, FALSE), cid, rid)

next_partner(S, cid, rid) ==
    IF cid = None THEN [st |-> S, res |-> BadRequest, fresh |-> FALSE]
    ELSE find_partner(_leave_current_room(S, cid, TRUE), cid, rid)

\* room_of.pop(cid) without its default: a KeyError, answered 500, when cid
\* has no room
ServerError == Resp(500, "error", NoRid)

leave_KeyError(S, cid) ==
    IF cid = None THEN [st |-> S, res |-> BadRequest]
    ELSE IF ~Has(S.room_of, cid) THEN [st |-> S, res |-> ServerError]
    ELSE [st |-> _enqueue(_leave_current_room(S, cid, TRUE), cid, LeftChatEv),
          res |-> Ok]

\* /leave that also discards the leaver's queue
leave_Teardown(S, cid) ==
    IF cid = None THEN [st |-> S, res |-> BadRequest]
    ELSE [st |-> [_leave_current_room(S, cid, TRUE)
                     EXCEPT !.message_queues = Pop(@, cid)],
          res |-> Ok]

leave(S, cid) ==
    IF cid = None THEN [st |-> S, res |-> BadRequest]
    ELSE [st |-> _enqueue(_leave_current_room(S, cid, TRUE), cid, LeftChatEv),
          res |-> Ok]

\* /signal that forwards to the sender's current peer only
signal_PeerOnly(S, cid, to, typ, payload) ==
    IF cid = None \/ to = None \/ typ = None THEN [st |-> S, res |-> BadRequest]
    ELSE IF ~Has(S.message_queues, to) \/ Get(S.peer_of, cid, None) # to
         THEN [st |-> S, res |-> NotFound]
    ELSE [st |-> _enqueue(S, to, SignalEv(cid, typ, payload)), res |-> Ok]

signal(S, cid, to, typ, payload) ==
    IF cid = None \/ to = None \/ typ = None THEN [st |-> S, res |-> BadRequest]
    ELSE IF ~Has(S.message_queues, to) THEN [st |-> S, res |-> NotFound]
    ELSE [st |-> _enqueue(S, to, SignalEv(cid, typ, payload)), res |-> Ok]

\* GET /events up to the point where the response is returned; the
\* generator it returns has not read anything yet
events(S, cid) ==
    IF cid = None THEN [st |-> S, res |-> BadRequest]
    ELSE [st |-> _ensure_queue(S, cid), res |-> Ok]

_test_pull(S, cid) ==
    IF cid = None THEN [st |-> S, res |-> BadRequest]
    ELSE [st |-> [_ensure_queue(S, cid) EXCEPT !.message_queues[cid] = <<>>],
          res |-> Ok]

\* ------------------------------------------------------------- threads
\* a thread that runs no handler
Idle == [op |-> "idle", cid |-> None, pc |-> "idle", notify |-> FALSE, ret |-> "",
         rid |-> NoRid, other |-> None, obj |-> FALSE, todo |-> {}, res |-> "",
         w0 |-> None, p0 |-> None, n0 |-> 0]

\* the handler returns: res is its answer
Return(th, res) == [th EXCEPT !.pc = "done", !.res = res]

\* line 62: room_of.get instead of room_of.pop
PopRoomOfKept(S, cid) == [st |-> S, rid |-> Get(S.room_of, cid, NoRid)]

PopRoomOf(S, cid) ==
    [st |-> [S EXCEPT !.room_of = Pop(@, cid)], rid |-> Get(S.room_of, cid, NoRid)]

\* the dict `members` of thread th: the object of room th.rid, or the
\* empty dict rooms.get made up at line 74
MembersOf(hp, th) == IF th.obj THEN hp[th.rid] ELSE Empty

\* rooms[rid] is the object hp keeps for rid (a made-up dict is empty and
\* never changes, an object never grows)
IsObject(S, hp, rid) == Has(S.rooms, rid) /\ (~Has(hp, rid) \/ hp[rid] = S.rooms[rid])

\* One access of _leave_current_room (lines 62-84) to the globals by the
\* thread with locals th: the globals, the objects and the locals afterwards.
leave_room_step(S, hp, th) ==
    CASE th.pc = "l62" ->
           LET r == PopRoomOf(S, th.cid)
           IN  [st |-> r.st, hp |-> hp,
                th |-> [th EXCEPT !.rid = r.rid,
                                  !.pc = IF r.rid = NoRid THEN "l66" ELSE "l70"]]
      [] th.pc = "l66" ->
           [st |-> S, hp |-> hp,
            th |-> [th EXCEPT !.pc = IF S.waiting_id = th.cid THEN "l67" ELSE th.ret]]
      [] th.pc = "l67" ->
           [st |-> [S EXCEPT !.waiting_id = None], hp |-> hp,
            th |-> [th EXCEPT !.pc = th.ret]]
      [] th.pc = "l70" ->
           LET other == Get(S.peer_of, th.cid, None)
           IN  [st |-> [S EXCEPT !.peer_of = Pop(@, th.cid)], hp |-> hp,
                th |-> [th EXCEPT !.other = other,
                                  !.pc = IF other # None THEN "l72" ELSE "l74"]]
      [] th.pc = "l72" ->
           [st |-> [S EXCEPT !.peer_of = Pop(@, th.other)], hp |-> hp,
            th |-> [th EXCEPT !.pc = "l74"]]
      [] th.pc = "l74" ->
           IF IsObject(S, hp, th.rid)
           THEN [st |-> S, hp |-> Put(hp, th.rid, S.rooms[th.rid]),
                 th |-> [th EXCEPT !.obj = TRUE, !.pc = "l75"]]
           ELSE [st |-> S, hp |-> hp, th |-> [th EXCEPT !.obj = FALSE, !.pc = "l75"]]
      [] th.pc = "l75" ->
           LET members == MembersOf(hp, th)
               todo == {k \in DOMAIN members : members[k] = th.cid}
           IN  [st |-> S, hp |-> hp,
                th |-> [th EXCEPT !.todo = todo,
                                  !.pc = IF todo = {} THEN "l78" ELSE "l77"]]
      [] th.pc = "l77" ->
           LET members == MembersOf(hp, th)
               k == IF "a" \in th.todo THEN "a" ELSE "b"
               left == Pop(members, k)
               todo == th.todo \ {k}
           IN  IF ~Has(members, k)
               THEN [st |-> S, hp |-> hp, th |-> Return(th, "error")]
               ELSE [st |-> IF IsObject(S, hp, th.rid)
                            THEN [S EXCEPT !.rooms = Put(@, th.rid, left)]
                            ELSE S,
                     hp |-> Put(hp, th.rid, left),
                     th |-> [th EXCEPT !.todo = todo,
                                       !.pc = IF todo = {} THEN "l78" ELSE "l77"]]
      [] th.pc = "l78" ->
           [st |-> [S EXCEPT !.rooms = Put(@, th.rid, MembersOf(hp, th))], hp |-> hp,
            th |-> [th EXCEPT !.pc = IF th.notify /\ th.other # None
                                     THEN "l81" ELSE "l83"]]
      [] th.pc = "l81" ->
           [st |-> _enqueue(S, th.other, PeerLeftEv), hp |-> hp,
            th |-> [th EXCEPT !.pc = "l83"]]
      [] th.pc = "l83" ->
           [st |-> S, hp |-> hp,
            th |-> [th EXCEPT !.pc = IF DOMAIN MembersOf(hp, th) = {}
                                     THEN "l84" ELSE th.ret]]
      [] th.pc = "l84" ->
           [st |-> [S EXCEPT !.rooms = Pop(@, th.rid)], hp |-> hp,
            th |-> [th EXCEPT !.pc = th.ret]]

LeavePcs == {"l62", "l66", "l67", "l70", "l72", "l74", "l75", "l77", "l78", "l81",
             "l83", "l84"}

\* One access of find_partner (lines 106-126) to the globals; rid is the id
\* uuid4 returns at line 113.
find_step(S, th, rid) ==
    CASE th.pc = "f106" ->
           [st |-> S,
            th |-> IF Has(S.room_of, th.cid)
                   THEN [th EXCEPT !.pc = "l62", !.notify = FALSE, !.ret = "f110a"]
                   ELSE [th EXCEPT !.pc = "f110a"]]
      [] th.pc = "f110a" ->
           [st |-> S,
            th |-> [th EXCEPT !.pc = IF S.waiting_id # None THEN "f110b" ELSE "f125"]]
      [] th.pc = "f110b" ->
           [st |-> S,
            th |-> [th EXCEPT !.pc = IF S.waiting_id # th.cid THEN "f111" ELSE "f125"]]
      [] th.pc = "f111" ->
           [st |-> S, th |-> [th EXCEPT !.other = S.waiting_id, !.pc = "f112"]]
      [] th.pc = "f112" ->
           [st |-> [S EXCEPT !.waiting_id = None], th |-> [th EXCEPT !.pc = "f114"]]
      [] th.pc = "f114" ->
           [st |-> [S EXCEPT !.rooms = Put(@, rid, NewRoom(th.other, th.cid))],
            th |-> [th EXCEPT !.rid = rid, !.pc = "f115"]]
      [] th.pc = "f115" ->
           [st |-> [S EXCEPT !.peer_of = Put(@, th.other, th.cid)],
            th |-> [th EXCEPT !.pc = "f116"]]
      [] th.pc = "f116" ->
           [st |-> [S EXCEPT !.peer_of = Put(@, th.cid, th.other)],
            th |-> [th EXCEPT !.pc = "f117"]]
      [] th.pc = "f117" ->
           [st |-> [S EXCEPT !.room_of = Put(@, th.other, th.rid)],
            th |-> [th EXCEPT !.pc = "f118"]]
      [] th.pc = "f118" ->
           [st |-> [S EXCEPT !.room_of = Put(@, th.cid, th.rid)],
            th |-> [th EXCEPT !.pc = "f120"]]
      [] th.pc = "f120" ->
           [st |-> _enqueue(S, th.other, MatchedEv(th.rid, "caller", th.cid)),
            th |-> [th EXCEPT !.pc = "f121"]]
      [] th.pc = "f121" ->
           [st |-> _enqueue(S, th.cid, MatchedEv(th.rid, "callee", th.other)),
            th |-> Return(th, "matched")]
      [] th.pc = "f125" ->
           [st |-> [S EXCEPT !.waiting_id = th.cid], th |-> [th EXCEPT !.pc = "f126"]]
      [] th.pc = "f126" ->
           [st |-> _enqueue(S, th.cid, SearchingEv), th |-> Return(th, "waiting")]

FindPcs == {"f106", "f110a", "f110b", "f111", "f112", "f114", "f115", "f116", "f117",
            "f118", "f120", "f121", "f125", "f126"}

\* the locals of a thread that has taken the request op of cid, up to the
\* first access to the globals; w0, p0 and n0 keep what the request found:
\* who was waiting, the peer of cid and the "peer-left" events that peer had
Started(S, op, cid) ==
    LET th == [Idle EXCEPT !.op = op, !.cid = cid, !.w0 = S.waiting_id,
                           !.p0 = Get(S.peer_of, cid, None),
                           !.n0 = IF Has(S.peer_of, cid) /\ Has(S.message_queues, S.peer_of[cid])
                                  THEN CountKind(S.message_queues[S.peer_of[cid]], "peer-left")
                                  ELSE 0]
    IN  IF cid = None THEN Return(th, "bad request")
        ELSE CASE op = "find" -> [th EXCEPT !.pc = "f106"]
               [] op = "next" -> [th EXCEPT !.pc = "l62", !.notify = TRUE, !.ret = "f106"]
               [] op = "leave" -> [th EXCEPT !.pc = "l62", !.notify = TRUE, !.ret = "l160"]

\* ------------------------------------------------------------- actions
\* identifiers a request can carry: what /register issued, a made-up one,
\* or none at all
Callers == registered \cup Ghosts \cup {None}

\* the globals become S, provided the run stays within `limit` puts
Commit(S, limit) ==
    /\ S.puts <= limit
    /\ waiting_id' = S.waiting_id
    /\ rooms' = S.rooms
    /\ peer_of' = S.peer_of
    /\ room_of' = S.room_of
    /\ message_queues' = S.message_queues
    /\ puts' = S.puts
    /\ log' = S.log
    /\ UNCHANGED <<streams, threads, heap>>

Init ==
    /\ waiting_id = None
    /\ rooms = Empty
    /\ peer_of = Empty
    /\ room_of = Empty
    /\ message_queues = Empty
    /\ registered = {}
    /\ next_rid = 1
    /\ puts = 0
    /\ log = Empty
    /\ streams = <<>>
    /\ threads = [t \in Threads |-> Idle]
    /\ heap = Empty

\* uuid4 returns an identifier no request has carried yet; the k-th one
\* issued is named ClientSeq[k]
Register(limit) ==
    \E cid \in {ClientSeq[i] : i \in {Cardinality(registered) + 1} \cap DOMAIN ClientSeq} :
        /\ Commit(_ensure_queue(State, cid), limit)
        /\ registered' = registered \cup {cid}
        /\ UNCHANGED next_rid

FindPartner(limit) ==
    \E cid \in Callers :
        LET r == find_partner(State, cid, next_rid)
        IN  /\ r.fresh => next_rid <= MaxRooms
            /\ Commit(r.st, limit)
            /\ next_rid' = IF r.fresh THEN next_rid + 1 ELSE next_rid
            /\ UNCHANGED registered

NextPartner(limit) ==
    \E cid \in Callers :
        LET r == next_partner(State, cid, next_rid)
        IN  /\ r.fresh => next_rid <= MaxRooms
            /\ Commit(r.st, limit)
            /\ next_rid' = IF r.fresh THEN next_rid + 1 ELSE next_rid
            /\ UNCHANGED registered

Leave(limit) ==
    \E cid \in Callers :
        /\ Commit(leave(State, cid).st, limit)
        /\ UNCHANGED <<registered, next_rid>>

Signal(limit, payloads) ==
    \E cid \in Callers, to \in Callers, typ \in MsgTypes \cup {None}, payload \in payloads :
        /\ Commit(signal(State, cid, to, typ, payload).st, limit)
        /\ UNCHANGED <<registered, next_rid>>

TestPull(limit) ==
    \E cid \in Callers :
        /\ Commit(_test_pull(State, cid).st, limit)
        /\ UNCHANGED <<registered, next_rid>>

Events(limit) ==
    \E cid \in Callers :
        /\ Commit(events(State, cid).st, limit)
        /\ UNCHANGED <<registered, next_rid>>

Next ==
    \/ Register(MaxPuts)
    \/ FindPartner(MaxPuts)
    \/ NextPartner(MaxPuts)
    \/ Leave(MaxPuts)

Spec == Init /\ [][Next]_vars

NextRelay ==
    \/ Register(RelayPuts)
    \/ FindPartner(RelayPuts)
    \/ NextPartner(RelayPuts)
    \/ Leave(RelayPuts)
    \/ Signal(RelayPuts, Payloads)
    \/ TestPull(RelayPuts)
    \/ Events(RelayPuts)

SpecRelay == Init /\ [][NextRelay]_vars

\* ------------------------------------------------------------- readers
\* Queue.get / Queue.get_nowait on a queue that is not empty: the item
\* returned and what stays in the queue
QueueGetLast(q) == [item |-> q[Len(q)], rest |-> SubSeq(q, 1, Len(q) - 1)]

QueueGetPeek(q) == [item |-> Head(q), rest |-> q]

QueueGet(q) == [item |-> Head(q), rest |-> Tail(q)]

\* a reader holds the queue of cid; got is what its get calls have returned
\* so far, idle whether it has yielded a keep-alive, pc where it stands
Reader(cid, kind) == [cid |-> cid, kind |-> kind, got |-> <<>>, idle |-> FALSE, pc |-> "loop"]

\* lines 176-181, an Empty out of q.get(timeout=60): a keep-alive is
\* yielded and the loop goes on
KeepAlive(r) == [r EXCEPT !.idle = TRUE]

\* the globals become S and the readers rs
CommitReaders(S, rs) ==
    /\ waiting_id' = S.waiting_id
    /\ rooms' = S.rooms
    /\ peer_of' = S.peer_of
    /\ room_of' = S.room_of
    /\ message_queues' = S.message_queues
    /\ puts' = S.puts
    /\ log' = S.log
    /\ streams' = rs
    /\ UNCHANGED <<registered, next_rid, threads, heap>>

\* the first client has registered; every queue is observed from the start
InitStream ==
    /\ waiting_id = None
    /\ rooms = Empty
    /\ peer_of = Empty
    /\ room_of = Empty
    /\ message_queues = _ensure_queue([message_queues |-> Empty], ClientSeq[1]).message_queues
    /\ registered = {ClientSeq[1]}
    /\ next_rid = 1
    /\ puts = 0
    /\ log = [c \in Clients \cup Ghosts |-> <<>>]
    /\ streams = <<>>
    /\ threads = [t \in Threads |-> Idle]
    /\ heap = Empty

\* GET /events with an issued identifier or none: the handler, and the
\* generator it returns when it answers 200
Subscribe ==
    \E cid \in registered \cup {None} :
        LET r == events(State, cid)
        IN  /\ Len(streams) < Len(ConnSeq)
            /\ CommitReaders(r.st, IF r.res = Ok THEN Append(streams, Reader(cid, "sse"))
                                                 ELSE streams)

\* lines 176-177 and 182-186: q.get returns an item and the generator yields it
StreamGet ==
    \E i \in DOMAIN streams :
        LET r == streams[i]
            g == QueueGet(message_queues[r.cid])
        IN  /\ r.kind = "sse" /\ r.pc = "loop"
            /\ message_queues[r.cid] # <<>>
            /\ CommitReaders([State EXCEPT !.message_queues[r.cid] = g.rest],
                              [streams EXCEPT ![i].got = Append(@, g.item)])

\* lines 178-181: nothing arrived for 60 seconds
StreamKeepAlive ==
    \E i \in DOMAIN streams :
        LET r == streams[i]
        IN  /\ r.kind = "sse" /\ r.pc = "loop"
            /\ message_queues[r.cid] = <<>>
            /\ CommitReaders(State, [streams EXCEPT ![i] = KeepAlive(r)])

\* lines 398-403 of _test_pull with an issued identifier or none, up to
\* the loop
TestPullBegin ==
    \E cid \in registered \cup {None} :
        /\ Len(streams) < Len(ConnSeq)
        /\ IF cid = None
           THEN CommitReaders(State, streams)
           ELSE CommitReaders(_ensure_queue(State, cid),
                              Append(streams, Reader(cid, "pull")))

\* line 407: one q.get_nowait() that returns an item
TestPullGet ==
    \E i \in DOMAIN streams :
        LET r == streams[i]
            g == QueueGet(message_queues[r.cid])
        IN  /\ r.kind = "pull" /\ r.pc = "loop"
            /\ message_queues[r.cid] # <<>>
            /\ CommitReaders([State EXCEPT !.message_queues[r.cid] = g.rest],
                              [streams EXCEPT ![i].got = Append(@, g.item)])

\* lines 408-410: q.get_nowait() raises Empty and the items are returned
TestPullReturn ==
    \E i \in DOMAIN streams :
        LET r == streams[i]
        IN  /\ r.kind = "pull" /\ r.pc = "loop"
            /\ message_queues[r.cid] = <<>>
            /\ CommitReaders(State, [streams EXCEPT ![i].pc = "done"])

NextStream ==
    \/ Leave(StreamPuts)
    \/ Signal(StreamPuts, StreamPayloads)
    \/ Subscribe
    \/ StreamGet
    \/ StreamKeepAlive
    \/ TestPullBegin
    \/ TestPullGet
    \/ TestPullReturn

SpecStream == InitStream /\ [][NextStream]_vars

\* ------------------------------------------------- handlers in parallel
\* the globals, the objects and the threads become S, hp and ths
CommitThreads(S, hp, ths) ==
    /\ waiting_id' = S.waiting_id
    /\ rooms' = S.rooms
    /\ peer_of' = S.peer_of
    /\ room_of' = S.room_of
    /\ message_queues' = S.message_queues
    /\ puts' = S.puts
    /\ log' = S.log
    /\ heap' = hp
    /\ threads' = ths
    /\ UNCHANGED <<registered, streams>>

\* no thread has taken a request yet
NoThread == \A t \in Threads : threads[t].pc = "idle"

\* every request taken has been answered
Quiescent == \A t \in Threads : threads[t].pc \in {"idle", "done"}

\* a server thread, the first one that is free, takes a request of one of
\* the kinds ops; with `again`, it is the request another thread has taken
Begin(ops, again) ==
    \E t \in Threads, op \in ops, cid \in Callers :
        /\ threads[t].pc = "idle"
        /\ t = "t2" => threads["t1"].pc # "idle"
        /\ again => \A u \in Threads \ {t} :
                        threads[u].pc # "idle" => threads[u].op = op /\ threads[u].cid = cid
        /\ CommitThreads(State, heap, [threads EXCEPT ![t] = Started(State, op, cid)])
        /\ UNCHANGED next_rid

LeaveRoomStep ==
    \E t \in Threads :
        /\ threads[t].pc \in LeavePcs
        /\ LET r == leave_room_step(State, heap, threads[t])
           IN  CommitThreads(r.st, r.hp, [threads EXCEPT ![t] = r.th])
        /\ UNCHANGED next_rid

FindStep ==
    \E t \in Threads :
        /\ threads[t].pc \in FindPcs
        /\ LET r == find_step(State, threads[t], next_rid)
           IN  CommitThreads(r.st, heap, [threads EXCEPT ![t] = r.th])
        /\ next_rid' = IF threads[t].pc = "f114" THEN next_rid + 1 ELSE next_rid

\* line 160 of leave
LeaveStatusStep ==
    \E t \in Threads :
        /\ threads[t].pc = "l160"
        /\ CommitThreads(_enqueue(State, threads[t].cid, LeftChatEv), heap,
                         [threads EXCEPT ![t] = Return(@, "ok")])
        /\ UNCHANGED next_rid

\* handlers run one at a time until the first two run in parallel
NextThreads ==
    \/ NoThread /\ Register(ThreadPuts)
    \/ NoThread /\ FindPartner(ThreadPuts)
    \/ NoThread /\ Leave(ThreadPuts)
    \/ Begin({"find", "next", "leave"}, FALSE)
    \/ LeaveRoomStep
    \/ FindStep
    \/ LeaveStatusStep

SpecThreads == Init /\ [][NextThreads]_vars

\* handlers run one at a time until a /leave and its duplicate run in parallel
NextDup ==
    \/ NoThread /\ Register(ThreadPuts)
    \/ NoThread /\ FindPartner(ThreadPuts)
    \/ NoThread /\ Leave(ThreadPuts)
    \/ Begin({"leave"}, TRUE)
    \/ LeaveRoomStep
    \/ LeaveStatusStep

SpecDup == Init /\ [][NextDup]_vars

\* --------------------------------------------------------------- claims
Ids == registered \cup Ghosts
EndsWith(q, ev) == Len(q) > 0 /\ q[Len(q)] = ev
SameMatchmaking(S, T) ==
    /\ S.waiting_id = T.waiting_id
    /\ S.rooms = T.rooms
    /\ S.peer_of = T.peer_of
    /\ S.room_of = T.room_of

\* C1 - pairing atomicity: when the waiting slot holds A and a different
\* identity B calls find_partner, the call answers "matched", the slot is
\* empty afterwards, exactly one room is new and it is {a: A, b: B}, room_of
\* maps A and B to it, and peer_of maps A to B and B to A.
PairingAtomicity ==
    \A B \in Ids :
        (waiting_id # None /\ waiting_id # B) =>
            LET A == waiting_id
                r == find_partner(State, B, next_rid)
                T == r.st
                rid == r.res.room
            IN  /\ r.res.code = 200
                /\ r.res.status = "matched"
                /\ T.waiting_id = None
                /\ DOMAIN T.rooms \ DOMAIN rooms = {rid}
                /\ T.rooms[rid] = [a |-> A, b |-> B]
                /\ Has(T.room_of, A) /\ T.room_of[A] = rid
                /\ Has(T.room_of, B) /\ T.room_of[B] = rid
                /\ Has(T.peer_of, A) /\ T.peer_of[A] = B
                /\ Has(T.peer_of, B) /\ T.peer_of[B] = A

\* a pairing of two registered clients has happened: the waiter is role a
PairingHappened ==
    \E A \in registered, B \in registered :
        /\ A # B
        /\ waiting_id = None
        /\ Has(room_of, A) /\ Has(room_of, B) /\ room_of[A] = room_of[B]
        /\ rooms[room_of[A]] = [a |-> A, b |-> B]
        /\ Has(peer_of, A) /\ peer_of[A] = B
        /\ Has(peer_of, B) /\ peer_of[B] = A

\* C2 - a pairing of registered A (waiting) and B (arriving) appends exactly
\* one "matched" event to A's queue (role caller, peer B) and exactly one to
\* B's queue (role callee, peer A), both with the new room id, and leaves
\* every other queue as it was.
MatchedEvents ==
    \A B \in registered :
        (waiting_id \in registered /\ waiting_id # B) =>
            LET A == waiting_id
                r == find_partner(State, B, next_rid)
                T == r.st
                rid == r.res.room
            IN  /\ rid # NoRid
                /\ T.message_queues[A] = Append(message_queues[A], MatchedEv(rid, "caller", B))
                /\ T.message_queues[B] = Append(message_queues[B], MatchedEv(rid, "callee", A))
                /\ DOMAIN T.message_queues = DOMAIN message_queues
                /\ \A C \in DOMAIN message_queues \ {A, B} :
                       T.message_queues[C] = message_queues[C]

\* both sides hold their "matched" event for one room while a third
\* registered client has none
MatchedDelivered ==
    \E A \in registered, B \in registered, C \in registered, rid \in RoomIds :
        /\ A # B /\ C # A /\ C # B
        /\ EndsWith(message_queues[A], MatchedEv(rid, "caller", B))
        /\ EndsWith(message_queues[B], MatchedEv(rid, "callee", A))
        /\ CountKind(message_queues[A], "matched") = 1
        /\ CountKind(message_queues[B], "matched") = 1
        /\ CountKind(message_queues[C], "matched") = 0

\* C3 - peer notification: when A and B are paired, B has a queue and A calls
\* leave or next_partner, exactly one event, a "peer-left", is appended to
\* B's queue; afterwards B has no peer_of entry and no room holds both.
PeerNotified(T, A, B) ==
    /\ T.message_queues[B] = Append(message_queues[B], PeerLeftEv)
    /\ ~Has(T.peer_of, B)
    /\ \A rid \in DOMAIN T.rooms :
           A \in Members(T.rooms[rid]) => B \notin Members(T.rooms[rid])

PeerNotification ==
    \A A \in Ids, B \in Ids :
        (Has(peer_of, A) /\ peer_of[A] = B /\ Has(message_queues, B)) =>
            /\ PeerNotified(leave(State, A).st, A, B)
            /\ PeerNotified(next_partner(State, A, next_rid).st, A, B)

\* A has left B: B was told once and A got its "Left the chat." status
PeerWasNotified ==
    \E A \in registered, B \in registered, rid \in RoomIds :
        /\ A # B
        /\ message_queues[B] = <<MatchedEv(rid, "callee", A), PeerLeftEv>>
        /\ EndsWith(message_queues[A], LeftChatEv)
        /\ ~Has(peer_of, B) /\ ~Has(peer_of, A) /\ ~Has(room_of, A)

\* C4 - idempotent leave: in every state and for every identity, a second
\* leave right after a first answers 200, leaves waiting_id, rooms, peer_of
\* and room_of as the first call left them and appends no "peer-left".
IdempotentLeave ==
    \A cid \in Ids :
        LET r1 == leave(State, cid)
            r2 == leave(r1.st, cid)
        IN  /\ r1.res = Ok
            /\ r2.res = Ok
            /\ SameMatchmaking(r1.st, r2.st)
            /\ DOMAIN r2.st.message_queues = DOMAIN r1.st.message_queues
            /\ \A c \in DOMAIN r1.st.message_queues :
                   CountKind(r2.st.message_queues[c], "peer-left")
                       = CountKind(r1.st.message_queues[c], "peer-left")

\* a paired client has left (its peer holds the one "peer-left"), so that a
\* further leave of the same client is the second one
LeftOnce ==
    \E A \in registered, B \in registered :
        /\ A # B
        /\ CountKind(message_queues[A], "matched") = 1
        /\ EndsWith(message_queues[A], LeftChatEv)
        /\ EndsWith(message_queues[B], PeerLeftEv)
        /\ ~Has(room_of, A) /\ Has(room_of, B)

\* C5 - room two-member invariant, as claimed: every room in `rooms` has
\* exactly two members, and a leave of one member removes the room and the
\* room_of and peer_of entries of both members in that step.
RoomsHaveTwoMembers ==
    /\ \A rid \in DOMAIN rooms : Cardinality(Members(rooms[rid])) = 2
    /\ \A A \in DOMAIN room_of :
           LET T == leave(State, A).st
               rid == room_of[A]
           IN  /\ ~Has(T.rooms, rid)
               /\ \A m \in Members(Get(rooms, rid, Empty)) :
                      ~Has(T.room_of, m) /\ ~Has(T.peer_of, m)

\* C6 - peer index symmetry: if peer_of maps A to B it maps B to A, and only
\* a currently paired identity has an entry: A and B are distinct, neither
\* is waiting, and both are the members of the room room_of gives for each.
PeerIndexSymmetric ==
    \A A \in DOMAIN peer_of :
        LET B == peer_of[A]
        IN  /\ B # A
            /\ Has(peer_of, B) /\ peer_of[B] = A
            /\ waiting_id # A
            /\ Has(room_of, A) /\ Has(room_of, B) /\ room_of[A] = room_of[B]
            /\ Has(rooms, room_of[A])
            /\ Members(rooms[room_of[A]]) = {A, B}

\* one pair is together while another identity, whose partner has left, is
\* still in its room without a peer_of entry
PairedAndAbandoned ==
    \E A \in Ids, C \in Ids :
        /\ Has(peer_of, A)
        /\ Has(room_of, C) /\ ~Has(peer_of, C)
        /\ C # peer_of[A]

\* C7 - room index consistency: every room_of entry id -> rid names a room
\* of `rooms` that has id as a member, and every member of a room has the
\* room_of entry for that room.
RoomIndexConsistent ==
    /\ \A cid \in DOMAIN room_of :
           /\ Has(rooms, room_of[cid])
           /\ cid \in Members(rooms[room_of[cid]])
    /\ \A rid \in DOMAIN rooms :
           \A m \in Members(rooms[rid]) : Has(room_of, m) /\ room_of[m] = rid

\* a room one member has left stands next to a full one
RoomAfterDeparture ==
    \E r1 \in DOMAIN rooms, r2 \in DOMAIN rooms :
        /\ Cardinality(Members(rooms[r1])) = 1
        /\ Cardinality(Members(rooms[r2])) = 2

\* C8 - waiting slot exclusivity: the identity in waiting_id, if any, has
\* no room_of entry, no peer_of entry and is a member of no room.
WaitingExclusive ==
    waiting_id # None =>
        /\ ~Has(room_of, waiting_id)
        /\ ~Has(peer_of, waiting_id)
        /\ \A rid \in DOMAIN rooms : waiting_id \notin Members(rooms[rid])

\* the waiting client was in a room before: it holds a "matched" event and
\* that room still stands with its former peer
WaitingAfterRoom ==
    /\ waiting_id \in registered
    /\ \E rid \in DOMAIN rooms, B \in Ids :
           /\ Count(message_queues[waiting_id], MatchedEv(rid, "callee", B)) = 1
           /\ Members(rooms[rid]) = {B}

\* C9 - unknown recipient, as claimed: /signal to an identifier /register
\* never issued answers 404 and changes no queue, whatever was called with
\* that identifier before.
UnknownRecipient ==
    \A to \in Ghosts, cid \in Ids, typ \in MsgTypes, payload \in Payloads :
        LET r == signal(State, cid, to, typ, payload)
        IN  /\ r.res = NotFound
            /\ r.st.message_queues = message_queues

\* the step taken is the one handler result r makes of the globals
StepIs(r) ==
    /\ waiting_id' = r.st.waiting_id
    /\ rooms' = r.st.rooms
    /\ peer_of' = r.st.peer_of
    /\ room_of' = r.st.room_of
    /\ message_queues' = r.st.message_queues

Rejected(r) ==
    /\ r.res.code # 200
    /\ UNCHANGED <<waiting_id, rooms, peer_of, room_of, message_queues>>
    /\ waiting_id' \notin Ghosts
    /\ \A rid \in DOMAIN rooms' : Members(rooms'[rid]) \cap Ghosts = {}

\* C10 - unknown identity, as claimed: a /find, /next or /leave carrying an
\* identifier /register never issued answers with an error and changes none
\* of waiting_id, rooms, peer_of, room_of and the queues; such an identifier
\* is neither in waiting_id nor in a room afterwards.
UnknownIdentity ==
    [][\A g \in Ghosts :
          /\ StepIs(find_partner(State, g, next_rid))
                 => Rejected(find_partner(State, g, next_rid))
          /\ StepIs(next_partner(State, g, next_rid))
                 => Rejected(next_partner(State, g, next_rid))
          /\ StepIs(leave(State, g)) => Rejected(leave(State, g))]_vars

RoomsOf(S, cid) == {rid \in DOMAIN S.rooms : cid \in Members(S.rooms[rid])}

\* C14 - no self-pairing: find_partner(id) with the waiting slot empty or
\* holding id answers "waiting", leaves id in the slot, creates no room and
\* leaves id without room_of and peer_of entry and in no room, and appends
\* exactly one event, the "Searching" status, to id's queue.
NoSelfPairing ==
    \A cid \in Ids :
        (waiting_id = None \/ waiting_id = cid) =>
            LET r == find_partner(State, cid, next_rid)
                T == r.st
            IN  /\ r.res = Resp(200, "waiting", NoRid)
                /\ T.waiting_id = cid
                /\ DOMAIN T.rooms \subseteq DOMAIN rooms
                /\ ~Has(T.room_of, cid)
                /\ ~Has(T.peer_of, cid)
                /\ RoomsOf(T, cid) = {}
                /\ Has(message_queues, cid) =>
                       T.message_queues[cid] = Append(message_queues[cid], SearchingEv)

\* a registered client asked twice while it was the one waiting
AskedAgainWhileWaiting ==
    \E cid \in registered :
        /\ waiting_id = cid
        /\ message_queues[cid] = <<SearchingEv, SearchingEv>>
        /\ rooms = Empty

\* C15 - next_partner equivalence: next_partner(id) gives the response and
\* the globals that _leave_current_room(id, notify_peer=True) followed by
\* find_partner(id) gives; the find_partner part has no room left to leave;
\* a former peer with a queue gets exactly one event, a "peer-left"; and id
\* is waiting or matched afterwards.
NextIsLeaveThenFind ==
    \A cid \in Ids :
        LET S1 == _leave_current_room(State, cid, TRUE)
            r == next_partner(State, cid, next_rid)
            T == r.st
        IN  /\ r = find_partner(S1, cid, next_rid)
            /\ ~Has(S1.room_of, cid)
            /\ r.res.code = 200
            /\ \/ r.res.status = "waiting" /\ T.waiting_id = cid /\ ~Has(T.room_of, cid)
               \/ /\ r.res.status = "matched"
                  /\ Has(T.room_of, cid) /\ T.room_of[cid] = r.res.room
                  /\ T.waiting_id = None
            /\ \A B \in DOMAIN message_queues :
                   (Has(peer_of, cid) /\ peer_of[cid] = B) =>
                       T.message_queues[B] = Append(message_queues[B], PeerLeftEv)

\* a client paired with one peer has moved on to the next: the former peer
\* holds its "peer-left" and the client is in a later room with another
MovedToNext ==
    \E A \in registered, B \in registered, C \in Ids :
        /\ B # A /\ C # A /\ C # B
        /\ Count(message_queues[A], LeftChatEv) = 0
        /\ EndsWith(message_queues[B], PeerLeftEv)
        /\ ~Has(peer_of, B)
        /\ Has(peer_of, A) /\ peer_of[A] = C
        /\ Has(room_of, B) /\ Has(room_of, A) /\ room_of[A] > room_of[B]

\* C16 - silent implicit leave: when A, paired with B, calls find_partner,
\* A's room_of entry for that room and both peer_of entries go, B's queue
\* gets nothing from the call, and A then waits or is paired in a new room,
\* so that A is a member of one room at most.
SilentImplicitLeave ==
    \A A \in Ids :
        (Has(peer_of, A) /\ Has(room_of, A)) =>
            LET B == peer_of[A]
                old == room_of[A]
                r == find_partner(State, A, next_rid)
                T == r.st
            IN  /\ ~Has(T.peer_of, B)
                /\ Has(T.peer_of, A) => T.peer_of[A] # B
                /\ Has(T.room_of, A) => T.room_of[A] # old
                /\ A \notin Members(Get(T.rooms, old, Empty))
                /\ Has(message_queues, B) => T.message_queues[B] = message_queues[B]
                /\ Cardinality(RoomsOf(T, A)) <= 1
                /\ \/ r.res.status = "waiting" /\ T.waiting_id = A /\ RoomsOf(T, A) = {}
                   \/ r.res.status = "matched" /\ RoomsOf(T, A) = {r.res.room}

\* a paired client asked for a partner again: it waits, its former peer
\* is alone in the old room and was told nothing
LeftSilently ==
    \E A \in registered, B \in registered, rid \in RoomIds :
        /\ A # B
        /\ waiting_id = A
        /\ EndsWith(message_queues[A], SearchingEv)
        /\ CountKind(message_queues[A], "matched") = 1
        /\ message_queues[B] = <<MatchedEv(rid, "callee", A)>>
        /\ Has(room_of, B) /\ room_of[B] = rid /\ ~Has(peer_of, B)

\* C17 - relay is pairing-independent and state-preserving: whoever cid is
\* (peer of `to` or not, in a room or not, registered or not), signal answers
\* 200 exactly when its three fields are present and `to` has a queue; it
\* then appends one "signal" event to that queue and leaves waiting_id,
\* rooms, peer_of, room_of and every other queue as they were; a signal that
\* is refused changes nothing.
RelayIndependent ==
    \A cid \in Callers, to \in Callers, typ \in MsgTypes \cup {None}, payload \in Payloads :
        LET r == signal(State, cid, to, typ, payload)
            T == r.st
        IN  IF cid # None /\ to # None /\ typ # None /\ Has(message_queues, to)
            THEN /\ r.res = Ok
                 /\ SameMatchmaking(State, T)
                 /\ DOMAIN T.message_queues = DOMAIN message_queues
                 /\ T.message_queues[to] =
                        Append(message_queues[to], SignalEv(cid, typ, payload))
                 /\ \A c \in DOMAIN message_queues \ {to} :
                        T.message_queues[c] = message_queues[c]
            ELSE /\ r.res.code # 200
                 /\ SameMatchmaking(State, T)
                 /\ T.message_queues = message_queues

\* a paired client received a signal from an identifier that is not its
\* peer and is in no room
RelayedByStranger ==
    \E to \in registered, cid \in Ids :
        /\ cid # to
        /\ Has(peer_of, to) /\ peer_of[to] # cid
        /\ ~Has(room_of, cid) /\ ~Has(peer_of, cid)
        /\ EndsWith(message_queues[to], SignalEv(cid, "offer", "x"))

\* C19 - channel persistence: every identifier /register issued has a
\* queue; no handler (find_partner, next_partner, leave, signal, events,
\* _test_pull) removes a queue; after a paired A with a queue leaves, a
\* signal from its former peer B to A answers 200 and is appended to A's
\* queue; and no signal to a registered identifier answers 404.
KeepsQueues(T) == DOMAIN message_queues \subseteq DOMAIN T.message_queues

ChannelPersistence ==
    /\ registered \subseteq DOMAIN message_queues
    /\ \A cid \in Callers :
           /\ KeepsQueues(find_partner(State, cid, next_rid).st)
           /\ KeepsQueues(next_partner(State, cid, next_rid).st)
           /\ KeepsQueues(leave(State, cid).st)
           /\ KeepsQueues(events(State, cid).st)
           /\ KeepsQueues(_test_pull(State, cid).st)
           /\ \A to \in Callers, typ \in MsgTypes \cup {None}, payload \in Payloads :
                  KeepsQueues(signal(State, cid, to, typ, payload).st)
    /\ \A A \in DOMAIN message_queues, B \in Ids, typ \in MsgTypes, payload \in Payloads :
           (Has(peer_of, A) /\ peer_of[A] = B) =>
               LET S1 == leave(State, A).st
                   r == signal(S1, B, A, typ, payload)
               IN  /\ r.res = Ok
                   /\ r.st.message_queues[A] =
                          Append(S1.message_queues[A], SignalEv(B, typ, payload))
    /\ \A to \in registered, cid \in Ids, typ \in MsgTypes, payload \in Payloads :
           signal(State, cid, to, typ, payload).res = Ok

\* a client with a queue was paired and has left: its queue is still
\* there, ending with its "Left the chat." status, and its former peer is
\* alone in the room
QueueOutlivesLeave ==
    \E A \in registered, B \in Ids, rid \in DOMAIN rooms :
        /\ A # B
        /\ message_queues[A] = <<MatchedEv(rid, "callee", B), LeftChatEv>>
        /\ rooms[rid] = [a |-> B]
        /\ ~Has(room_of, A) /\ ~Has(peer_of, A) /\ ~Has(peer_of, B)

\* the readers of the queue of B, and what each has been handed
Readers(B) == {i \in DOMAIN streams : streams[i].cid = B}
Got(B) == [i \in Readers(B) |-> streams[i].got]

\* the "signal" events of A in a sequence of events
IsFrom(ev, A) == ev.event = "signal" /\ ev.data.from = A
RECURSIVE SignalsFrom(_, _)
SignalsFrom(q, A) ==
    IF q = <<>> THEN <<>>
    ELSE IF IsFrom(Head(q), A) THEN <<Head(q)>> \o SignalsFrom(Tail(q), A)
    ELSE SignalsFrom(Tail(q), A)

\* whole is an interleaving of the sequences parts[i], each kept in order
\* and each element used once
RECURSIVE IsMerge(_, _)
IsMerge(parts, whole) ==
    IF whole = <<>> THEN \A i \in DOMAIN parts : parts[i] = <<>>
    ELSE \E i \in DOMAIN parts :
             /\ parts[i] # <<>>
             /\ Head(parts[i]) = Head(whole)
             /\ IsMerge([parts EXCEPT ![i] = Tail(@)], Tail(whole))

\* sent splits into what the readers hold, interleaved, and then unread
Delivered(sent, reads, unread) ==
    LET n == Len(sent) - Len(unread)
    IN  /\ n >= 0
        /\ SubSeq(sent, n + 1, Len(sent)) = unread
        /\ IsMerge(reads, SubSeq(sent, 1, n))

\* C11 - relay delivery ordering: for every queue B and sender A, the
\* "signal" events of A that were put on B's queue, in the order of the
\* puts and whatever other events were put in between, are the ones the
\* readers of B have been handed followed by the ones still queued; each is
\* handed out once, in that order, with from, type and payload as sent.
RelayOrder ==
    \A B \in DOMAIN message_queues, A \in Ids :
        LET reads == [i \in Readers(B) |-> SignalsFrom(streams[i].got, A)]
            sent == SignalsFrom(log[B], A)
            unread == SignalsFrom(message_queues[B], A)
        IN  /\ Delivered(sent, reads, unread)
            /\ \A i \in Readers(B) :
                   Readers(B) = {i} => reads[i] \o unread = sent

\* an /events generator was handed a relay of A, then an event of another
\* producer, then a later and different relay of A
RelaysReadInOrder ==
    \E i \in DOMAIN streams, A \in Ids :
        LET got == streams[i].got
        IN  /\ streams[i].kind = "sse"
            /\ Len(got) = 3
            /\ got[1] = SignalEv(A, "offer", "x")
            /\ ~IsFrom(got[2], A)
            /\ got[3] = SignalEv(A, "offer", "y")

\* C18 - single consumption without fan-out: for every queue, the events
\* put on it are, in the order of the puts, the ones its readers have been
\* handed, each to one reader and once, followed by the ones still queued,
\* so that each reader holds its events in the order of the puts; and an
\* /events generator is always in its loop, also after a keep-alive.
SingleConsumption ==
    /\ \A B \in DOMAIN message_queues :
           Delivered(log[B], Got(B), message_queues[B])
    /\ \A i \in DOMAIN streams : streams[i].kind = "sse" => streams[i].pc = "loop"

\* an /events generator that has yielded a keep-alive and a /_test/pull
\* that has returned have each been handed events of the same queue
TwoReadersShared ==
    \E i \in DOMAIN streams, j \in DOMAIN streams :
        /\ streams[i].cid = streams[j].cid
        /\ streams[i].kind = "sse" /\ streams[i].idle /\ streams[i].got # <<>>
        /\ streams[j].kind = "pull" /\ streams[j].pc = "done" /\ streams[j].got # <<>>

\* the threads that have taken a request
Busy == {t \in Threads : threads[t].pc # "idle"}

\* no index and no room holds None
NoNullIdentity ==
    /\ None \notin DOMAIN peer_of /\ \A c \in DOMAIN peer_of : peer_of[c] # None
    /\ None \notin DOMAIN room_of
    /\ \A rid \in DOMAIN rooms : None \notin Members(rooms[rid])

\* C12 - atomic mutation under concurrency, as claimed: when the handlers
\* that ran in parallel, of different clients, have all returned, peer_of
\* is symmetric, room_of agrees with the membership of the rooms, and no
\* room and no index holds None.
ThreadsKeepIndexes ==
    (/\ Quiescent
     /\ \A t \in Busy, u \in Busy : t # u => threads[t].cid # threads[u].cid)
        => /\ \A A \in DOMAIN peer_of :
                  Has(peer_of, peer_of[A]) /\ peer_of[peer_of[A]] = A
           /\ RoomIndexConsistent
           /\ NoNullIdentity

\* C13 - tie-break under concurrent arrival, as claimed: when X was waiting
\* as A and as B, two further identities, called find_partner in parallel
\* threads, then once both have returned exactly one of A, B is the peer of
\* X and the other one is in waiting_id; X is in one room, has one "matched"
\* event, and neither caller is paired with itself or with None.
TieBreak ==
    \A t \in Threads, u \in Threads :
        LET A == threads[t].cid
            B == threads[u].cid
            X == threads[t].w0
        IN  (/\ t # u /\ Quiescent
             /\ threads[t].op = "find" /\ threads[u].op = "find"
             /\ X # None /\ threads[u].w0 = X
             /\ A # None /\ B # None /\ A # B /\ A # X /\ B # X)
                => /\ Has(peer_of, X) /\ peer_of[X] \in {A, B}
                   /\ Has(peer_of, peer_of[X]) /\ peer_of[peer_of[X]] = X
                   /\ waiting_id \in {A, B} \ {peer_of[X]}
                   /\ Cardinality(RoomsOf(State, X)) = 1
                   /\ Has(message_queues, X) =>
                          CountKind(message_queues[X], "matched") = 1
                   /\ \A c \in {A, B} :
                          Has(peer_of, c) => peer_of[c] \notin {c, None}

\* C20 - duplicate concurrent leave: when A, paired with B, is the subject
\* of a /leave and of a duplicate of it running in parallel threads, then
\* once both have returned both have answered 200, B's queue has at most
\* one more "peer-left" than before, and A is in no room and has no room_of
\* and no peer_of entry, nor is it anyone's peer.
DuplicateLeave ==
    \A t \in Threads, u \in Threads :
        LET A == threads[t].cid
            B == threads[t].p0
        IN  (/\ t # u /\ Quiescent
             /\ threads[t].op = "leave" /\ threads[u].op = "leave"
             /\ A # None /\ threads[u].cid = A /\ B # None)
                => /\ threads[t].res = "ok" /\ threads[u].res = "ok"
                   /\ Has(message_queues, B) =>
                          CountKind(message_queues[B], "peer-left") <= threads[t].n0 + 1
                   /\ RoomsOf(State, A) = {}
                   /\ ~Has(room_of, A) /\ ~Has(peer_of, A)
                   /\ \A c \in DOMAIN peer_of : peer_of[c] # A

\* both /leave requests of A, paired with B, have run: the second started
\* before the first had left the room, and B was told once
LeftTwiceAtOnce ==
    \E t \in Threads, u \in Threads :
        /\ t # u /\ Quiescent
        /\ threads[t].op = "leave" /\ threads[u].op = "leave"
        /\ threads[t].cid = threads[u].cid
        /\ threads[t].p0 \in registered /\ threads[u].p0 = threads[t].p0
        /\ threads[t].rid # NoRid /\ threads[u].rid = NoRid
        /\ EndsWith(message_queues[threads[t].p0], PeerLeftEv)
        /\ CountKind(message_queues[threads[t].p0], "peer-left") = 1

====
